---- MODULE Spec2Model ----
(***************************************************************************)
(* ConeEditor indexing service: the SQLite store (notes, headings, links,  *)
(* chunks), the DatabaseManager operations of database.py and the request  *)
(* handlers of server.py.                                                  *)
(*                                                                         *)
(* Text (note bodies, paths, titles, link targets) is a sequence of        *)
(* one-character strings, so that offsets and lengths are those of the     *)
(* Python strings.                                                         *)
(***************************************************************************)
EXTENDS Integers, Sequences, FiniteSets, TLC

\* ------------------------------------------------------------------ text

LF == "\n"

\* The characters str.strip() removes and the regex class \s matches.
Whitespace == {" ", "\t", LF}

UpperCase == <<"A", "B", "C", "D", "E", "F", "G", "H", "I", "J", "K", "L", "M",
               "N", "O", "P", "Q", "R", "S", "T", "U", "V", "W", "X", "Y", "Z">>
LowerCase == <<"a", "b", "c", "d", "e", "f", "g", "h", "i", "j", "k", "l", "m",
               "n", "o", "p", "q", "r", "s", "t", "u", "v", "w", "x", "y", "z">>

Digits == {"0", "1", "2", "3", "4", "5", "6", "7", "8", "9"}

\* The regex class \w over ASCII.
WordChars == {UpperCase[k] : k \in 1..26} \cup {LowerCase[k] : k \in 1..26}
             \cup Digits \cup {"_"}

Range(s) == {s[i] : i \in 1..Len(s)}

Min(S) == CHOOSE x \in S : \A y \in S : x <= y
Max(S) == CHOOSE x \in S : \A y \in S : x >= y

\* s[i:] of Python, with 1-based i.
Tail_(s, i) == SubSeq(s, i, Len(s))

\* Whether text pat occurs in s at position i.
OccursAt(s, i, pat) ==
    /\ i >= 1
    /\ i + Len(pat) - 1 <= Len(s)
    /\ SubSeq(s, i, i + Len(pat) - 1) = pat

\* Number of leading characters of s that lie in set cs.
LeadingRun(s, cs) ==
    LET out == {i \in 1..Len(s) : s[i] \notin cs}
    IN  IF out = {} THEN Len(s) ELSE Min(out) - 1

\* Number of leading characters of s that do not lie in set cs.
LeadingRunNot(s, cs) ==
    LET in == {i \in 1..Len(s) : s[i] \in cs}
    IN  IF in = {} THEN Len(s) ELSE Min(in) - 1

\* Number of trailing characters of s that lie in set cs.
TrailingRun(s, cs) ==
    LET out == {i \in 1..Len(s) : s[i] \notin cs}
    IN  IF out = {} THEN Len(s) ELSE Len(s) - Max(out)

\* str.strip()
Strip(s) ==
    LET a == LeadingRun(s, Whitespace)
    IN  IF a = Len(s) THEN <<>>
        ELSE SubSeq(s, a + 1, Len(s) - TrailingRun(s, Whitespace))

\* str.split(sep): the pieces between the non-overlapping occurrences of sep,
\* found left to right; start is where the current piece begins.
RECURSIVE SplitFrom(_, _, _)
SplitFrom(s, sep, start) ==
    LET found == {i \in start..Len(s) : OccursAt(s, i, sep)}
    IN  IF found = {} THEN <<SubSeq(s, start, Len(s))>>
        ELSE <<SubSeq(s, start, Min(found) - 1)>>
             \o SplitFrom(s, sep, Min(found) + Len(sep))

Split(s, sep) == SplitFrom(s, sep, 1)

\* Last position of character c in s, 0 when absent (str.rfind + 1).
RFind(s, c) ==
    LET at == {i \in 1..Len(s) : s[i] = c}
    IN  IF at = {} THEN 0 ELSE Max(at)

\* Path(path).name: the last component of the path.
PathName(path) == Tail_(path, RFind(path, "/") + 1)

\* Path(path).stem: the name without its last suffix; a dot that starts or
\* ends the name starts no suffix.
PathStem(path) ==
    LET name == PathName(path)
        dot  == RFind(name, ".")
    IN  IF 1 < dot /\ dot < Len(name) THEN SubSeq(name, 1, dot - 1) ELSE name

\* len(re.findall(r'\w+', content)): the number of maximal runs of word
\* characters, counted by their first characters.
CountWords(content) ==
    Cardinality({i \in 1..Len(content) :
                    /\ content[i] \in WordChars
                    /\ (i = 1 \/ content[i - 1] \notin WordChars)})

\* ------------------------------------------------------- heading patterns

\* re.match(r'^(#{1,6})\s+(.+)$', line) on a stripped line: the record
\* [level, text] of the match, or <<>> when the line does not match.  maxLevel
\* is the upper count of the '#' run (6 for headings, 1 for the title).
MatchHeading(line, maxLevel) ==
    LET n    == LeadingRun(line, {"#"})
        rest == Tail_(line, n + 1)
        ws   == LeadingRun(rest, Whitespace)
        text == Tail_(rest, ws + 1)
    IN  IF n >= 1 /\ n <= maxLevel /\ ws >= 1 /\ text # <<>> /\ LF \notin Range(text)
        THEN <<[level |-> n, text |-> Strip(text)]>>
        ELSE <<>>

\* DatabaseManager._extract_title
RECURSIVE FirstTitle(_)
FirstTitle(lines) ==
    IF lines = <<>> THEN <<>>
    ELSE LET m == MatchHeading(Strip(Head(lines)), 1)
         IN  IF m # <<>> THEN <<m[1].text>> ELSE FirstTitle(Tail(lines))

\* A faulty _extract_title that takes the text of the first heading of any
\* level.
_extract_title_any_level(content, path) ==
    LET lines == Split(content, <<LF>>)
        hit   == {k \in 1..Len(lines) : MatchHeading(Strip(lines[k]), 6) # <<>>}
    IN  IF hit # {} THEN MatchHeading(Strip(lines[Min(hit)]), 6)[1].text
        ELSE PathStem(path)

_extract_title(content, path) ==
    LET t == FirstTitle(Split(content, <<LF>>))
    IN  IF t # <<>> THEN t[1] ELSE PathStem(path)

\* A faulty heading scan that leaves the newline out of the offsets.
RECURSIVE ScanHeadings_no_newline(_, _)
ScanHeadings_no_newline(lines, current_offset) ==
    IF lines = <<>> THEN <<>>
    ELSE LET line == Head(lines)
             m    == MatchHeading(Strip(line), 6)
             rest == ScanHeadings_no_newline(Tail(lines), current_offset + Len(line))
         IN  IF m # <<>>
             THEN <<[heading |-> m[1].text, level |-> m[1].level,
                     start_offset |-> current_offset]>> \o rest
             ELSE rest

\* The heading scan of index_headings: the headings of content in document
\* order, each with the offset of its line's first character.
RECURSIVE ScanHeadings(_, _)
ScanHeadings(lines, current_offset) ==
    IF lines = <<>> THEN <<>>
    ELSE LET line == Head(lines)
             m    == MatchHeading(Strip(line), 6)
             rest == ScanHeadings(Tail(lines), current_offset + Len(line) + 1)
         IN  IF m # <<>>
             THEN <<[heading |-> m[1].text, level |-> m[1].level,
                     start_offset |-> current_offset]>> \o rest
             ELSE rest

ExtractHeadings(content) == ScanHeadings(Split(content, <<LF>>), 0)

\* ------------------------------------------------------------ wikilinks

\* The match of r'\[\[([^\]|]+)(\|([^\]]+))?\]\]' that starts at position i of
\* s, as <<[target, alias, end]>>, or <<>>.  Both groups are maximal runs: a
\* shorter run is followed by a character that is neither '|' nor ']'.  alias
\* is <<>> for None and <<text>> otherwise; end is where the scan resumes.
MatchWikilinkAt(s, i) ==
    LET g1  == LeadingRunNot(Tail_(s, i + 2), {"]", "|"})
        p   == i + 2 + g1
        g3  == IF OccursAt(s, p, <<"|">>)
               THEN LeadingRunNot(Tail_(s, p + 1), {"]"}) ELSE 0
    IN  IF ~OccursAt(s, i, <<"[", "[">>) \/ g1 = 0 THEN <<>>
        ELSE IF OccursAt(s, p, <<"]", "]">>)
             THEN <<[target |-> Strip(SubSeq(s, i + 2, p - 1)),
                     alias  |-> <<>>,
                     end    |-> p + 2]>>
        ELSE IF g3 >= 1 /\ OccursAt(s, p + 1 + g3, <<"]", "]">>)
             THEN <<[target |-> Strip(SubSeq(s, i + 2, p - 1)),
                     alias  |-> <<Strip(SubSeq(s, p + 1, p + g3))>>,
                     end    |-> p + g3 + 3]>>
        ELSE <<>>

\* re.finditer(wikilink_pattern, content): the non-overlapping matches, left
\* to right.  A match starts at an occurrence of "[[".
RECURSIVE FindLinksFrom(_, _)
FindLinksFrom(s, i) ==
    LET opens == {j \in i..Len(s) : OccursAt(s, j, <<"[", "[">>)}
    IN  IF opens = {} THEN <<>>
        ELSE LET m == MatchWikilinkAt(s, Min(opens))
             IN  IF m # <<>>
                 THEN <<[target |-> m[1].target, alias |-> m[1].alias]>>
                      \o FindLinksFrom(s, m[1].end)
                 ELSE FindLinksFrom(s, Min(opens) + 1)

FindLinks(content) == FindLinksFrom(content, 1)

\* link_text = alias or target: a None or empty alias is falsy.
LinkText(m) == IF m.alias # <<>> /\ m.alias[1] # <<>> THEN m.alias[1] ELSE m.target

\* ------------------------------------------------------------- resolver

\* SQLite folds the ASCII letters for LIKE.
Lower(c) ==
    IF c \in Range(UpperCase)
    THEN LowerCase[CHOOSE k \in 1..Len(UpperCase) : UpperCase[k] = c]
    ELSE c

\* SQLite's  s LIKE pat : '%' matches any run of characters, '_' any one
\* character, every other character itself without regard to ASCII case.
RECURSIVE Like(_, _)
Like(s, pat) ==
    IF pat = <<>> THEN s = <<>>
    ELSE IF Head(pat) = "%"
         THEN Like(s, Tail(pat)) \/ (s # <<>> /\ Like(Tail(s), pat))
    ELSE IF s = <<>> THEN FALSE
    ELSE IF Head(pat) = "_" THEN Like(Tail(s), Tail(pat))
    ELSE Lower(Head(pat)) = Lower(Head(s)) /\ Like(Tail(s), Tail(pat))

\* path LIKE '%/' || target
LikeFilename(path, target) == Like(path, <<"%", "/">> \o target)

\* path LIKE '%/' || target || '.md'
LikeStemMd(path, target) == Like(path, <<"%", "/">> \o target \o <<".", "m", "d">>)

\* The WHERE clause of the resolver's query.
IsCandidate(row, target) ==
    \/ row.path = target
    \/ row.title = target
    \/ LikeFilename(row.path, target)
    \/ LikeStemMd(row.path, target)

\* A faulty ranking that puts the filename match above the stem match.
ResolveRank_filename_first(row, target) ==
    IF row.title = target THEN 1
    ELSE IF row.path = target THEN 2
    ELSE IF LikeFilename(row.path, target) THEN 3
    ELSE 4

\* The CASE expression the query orders by.
ResolveRank(row, target) ==
    IF row.title = target THEN 1
    ELSE IF row.path = target THEN 2
    ELSE IF LikeStemMd(row.path, target) THEN 3
    ELSE 4

\* A faulty resolver that matches on path alone, never on title or filename.
_resolve_by_path_only(rows, target, ok) ==
    LET cand == {i \in 1..Len(rows) : rows[i].path = target}
    IN  IF ~ok \/ cand = {} THEN target ELSE rows[CHOOSE i \in cand : TRUE].path

\* DatabaseManager._resolve_link_target over the rows of notes (in rowid
\* order).  ORDER BY names the rank alone and LIMIT 1 keeps the first row of
\* the sorted scan: among rows of equal rank, the one with the lowest rowid.
\* ok is whether the query succeeds; a failed query yields the raw target.
_resolve_link_target(rows, target, ok) ==
    LET cand == {i \in 1..Len(rows) : IsCandidate(rows[i], target)}
        best == CHOOSE i \in cand :
                    \A j \in cand :
                        \/ ResolveRank(rows[i], target) < ResolveRank(rows[j], target)
                        \/ /\ ResolveRank(rows[i], target) = ResolveRank(rows[j], target)
                           /\ i <= j
    IN  IF ~ok \/ cand = {} THEN target ELSE rows[best].path

\* A faulty loop that merges matches by their raw target, not by the note the
\* target resolves to.
CollectLinks_by_raw_target(matches, k, rows, failing, links) ==
    LET Raw(j) == [target      |-> _resolve_link_target(rows, matches[j].target,
                                                        j \notin failing),
                   link_text   |-> LinkText(matches[j]),
                   occurrences |-> Cardinality({i \in k..Len(matches) :
                                       matches[i].target = matches[j].target})]
        first == {j \in k..Len(matches) :
                     \A i \in k..(j - 1) : matches[i].target # matches[j].target}
    IN  links \o [n \in 1..Cardinality(first) |->
                     Raw(CHOOSE j \in first :
                             Cardinality({i \in first : i <= j}) = n)]

\* The loop of index_links over the matches: one entry per distinct resolved
\* destination, in order of first occurrence, with the first occurrence's
\* link text and the number of occurrences.  failing is the set of match
\* positions whose resolver query fails.
RECURSIVE CollectLinks(_, _, _, _, _)
CollectLinks(matches, k, rows, failing, links) ==
    IF k > Len(matches) THEN links
    ELSE LET normalized_target ==
                 _resolve_link_target(rows, matches[k].target, k \notin failing)
             seen == {j \in 1..Len(links) : links[j].target = normalized_target}
         IN  CollectLinks(matches, k + 1, rows, failing,
                 IF seen # {}
                 THEN [j \in 1..Len(links) |->
                          IF j \in seen
                          THEN [links[j] EXCEPT !.occurrences = @ + 1]
                          ELSE links[j]]
                 ELSE Append(links, [target      |-> normalized_target,
                                     link_text   |-> LinkText(matches[k]),
                                     occurrences |-> 1]))

ExtractLinks(content, rows, failing) ==
    CollectLinks(FindLinks(content), 1, rows, failing, <<>>)

\* -------------------------------------------------------------- chunker

max_chunk_size == 1000

\* NULL / None
None == <<>>

\* DatabaseManager._generate_chunk_id: the first 16 hex digits of the SHA-1 of
\* "note_id:start_offset", taken to be free of collisions: one identifier per
\* (note_id, start_offset).
_generate_chunk_id(note_id, start_offset) == <<note_id, start_offset>>

\* The loop of _find_heading_for_chunk from heading k on; best is <<>> or
\* <<heading>>.
RECURSIVE FindHeadingFrom(_, _, _, _)
FindHeadingFrom(hs, k, chunk_start, best) ==
    IF k > Len(hs) THEN best
    ELSE LET heading  == hs[k]
             d        == heading.start_offset - chunk_start
             distance == IF d < 0 THEN -d ELSE d
             closer   == \/ best = <<>>
                         \/ LET bd == best[1].start_offset - chunk_start
                            IN  distance < (IF bd < 0 THEN -bd ELSE bd)
         IN  FindHeadingFrom(hs, k + 1, chunk_start,
                 IF closer /\ heading.start_offset <= chunk_start
                 THEN <<heading>> ELSE best)

\* A faulty _find_heading_for_chunk whose test is distance <= best_distance:
\* among headings of equal distance the last of the list is kept.
_find_heading_last_of_equal(hs, chunk_start) ==
    LET preceding == {k \in 1..Len(hs) : hs[k].start_offset <= chunk_start}
        nearest   == {k \in preceding :
                         \A j \in preceding : hs[j].start_offset <= hs[k].start_offset}
    IN  IF nearest # {} THEN <<hs[Max(nearest)].id>> ELSE None

\* A faulty _find_heading_for_chunk that takes the heading nearest to the chunk
\* start on either side.
_find_nearest_heading(hs, chunk_start) ==
    LET Distance(k) == IF hs[k].start_offset < chunk_start
                       THEN chunk_start - hs[k].start_offset
                       ELSE hs[k].start_offset - chunk_start
        best == {k \in 1..Len(hs) : \A j \in 1..Len(hs) : Distance(k) <= Distance(j)}
    IN  IF best # {} THEN <<hs[Min(best)].id>> ELSE None

\* DatabaseManager._find_heading_for_chunk: the id of the chosen heading, or
\* None.
_find_heading_for_chunk(hs, chunk_start) ==
    LET best == FindHeadingFrom(hs, 1, chunk_start, <<>>)
    IN  IF best # <<>> THEN <<best[1].id>> ELSE None

\* One chunk as create_chunks stores it.
MakeChunk(note_id, hs, start_offset, end_offset, text) ==
    [chunk_id     |-> _generate_chunk_id(note_id, start_offset),
     note_id      |-> note_id,
     heading_id   |-> _find_heading_for_chunk(hs, start_offset),
     start_offset |-> start_offset,
     end_offset   |-> end_offset,
     text         |-> text]

\* The paragraph loop of create_chunks from paragraph k on, then the final
\* flush.
RECURSIVE ChunkLoop(_, _, _, _, _, _, _, _)
ChunkLoop(note_id, hs, paragraphs, k, current_chunk, start_offset, current_offset, out) ==
    IF k > Len(paragraphs)
    THEN IF Strip(current_chunk) # <<>>
         THEN Append(out, MakeChunk(note_id, hs, start_offset, current_offset,
                                    current_chunk))
         ELSE out
    ELSE LET paragraph == paragraphs[k]
             next      == current_offset + Len(paragraph) + 2
         IN  IF current_chunk # <<>>
                /\ Len(current_chunk) + Len(paragraph) > max_chunk_size
             THEN ChunkLoop(note_id, hs, paragraphs, k + 1, paragraph,
                            current_offset, next,
                            Append(out, MakeChunk(note_id, hs, start_offset,
                                                  current_offset, current_chunk)))
             ELSE IF current_chunk # <<>>
             THEN ChunkLoop(note_id, hs, paragraphs, k + 1,
                            current_chunk \o <<LF, LF>> \o paragraph,
                            start_offset, next, out)
             ELSE ChunkLoop(note_id, hs, paragraphs, k + 1, paragraph,
                            current_offset, next, out)

\* The chunk rows create_chunks inserts for content, in order.
BuildChunks(note_id, content, hs) ==
    ChunkLoop(note_id, hs, Split(content, <<LF, LF>>), 1, <<>>, 0, 0, <<>>)

\* The text of a chunk in the list create_chunks returns.
Preview(text) ==
    IF Len(text) > 100 THEN SubSeq(text, 1, 100) \o <<".", ".", ".">> ELSE text

\* ---------------------------------------------------------------- store

\* The database: each table is the sequence of its rows in rowid order;
\* seq_headings and seq_links are the AUTOINCREMENT counters of
\* sqlite_sequence.  A note row's note_id is its path.  The field pass of a
\* row is not a column: it records the index request that wrote the row.
\* Connections leave PRAGMA foreign_keys at its default (off), so no ON DELETE
\* action of the schema runs.
EmptyStore ==
    [notes |-> <<>>, headings |-> <<>>, links |-> <<>>, chunks |-> <<>>,
     seq_headings |-> 0, seq_links |-> 0]

\* The rows of table t that satisfy / do not satisfy  column = note_id.
RowsOf(t, column, note_id) ==
    LET Test(r) == r[column] = note_id IN SelectSeq(t, Test)

RowsNotOf(t, column, note_id) ==
    LET Test(r) == r[column] # note_id IN SelectSeq(t, Test)

\* DatabaseManager.upsert_note: INSERT OR REPLACE removes the row of the same
\* note_id or path and inserts the new row with a fresh, greatest rowid.
upsert_note(db, path, content, modified_at, pass) ==
    LET Keep(r) == r.note_id # path /\ r.path # path
        row == [note_id     |-> path,
                path        |-> path,
                title       |-> _extract_title(content, path),
                modified_at |-> modified_at,
                word_count  |-> CountWords(content),
                pass        |-> pass]
    IN  [db EXCEPT !.notes = Append(SelectSeq(@, Keep), row)]

\* The list index_headings returns: the headings of content with the ids the
\* inserts were given.
NewHeadings(db, content) ==
    LET found == ExtractHeadings(content)
    IN  [k \in 1..Len(found) |->
            [id           |-> db.seq_headings + k,
             heading      |-> found[k].heading,
             level        |-> found[k].level,
             start_offset |-> found[k].start_offset]]

\* A faulty index_headings that inserts without deleting the note's headings.
index_headings_no_delete(db, note_id, content, pass) ==
    LET hs == NewHeadings(db, content)
    IN  [db EXCEPT
            !.headings = @ \o [k \in 1..Len(hs) |->
                                  [id           |-> hs[k].id,
                                   note_id      |-> note_id,
                                   heading      |-> hs[k].heading,
                                   level        |-> hs[k].level,
                                   start_offset |-> hs[k].start_offset,
                                   pass         |-> pass]],
            !.seq_headings = @ + Len(hs)]

\* DatabaseManager.index_headings: one transaction that deletes the note's
\* headings and inserts those of content.
index_headings(db, note_id, content, pass) ==
    LET hs == NewHeadings(db, content)
    IN  [db EXCEPT
            !.headings = RowsNotOf(@, "note_id", note_id)
                         \o [k \in 1..Len(hs) |->
                                [id           |-> hs[k].id,
                                 note_id      |-> note_id,
                                 heading      |-> hs[k].heading,
                                 level        |-> hs[k].level,
                                 start_offset |-> hs[k].start_offset,
                                 pass         |-> pass]],
            !.seq_headings = @ + Len(hs)]

\* A faulty index_links that inserts without deleting the note's links.
index_links_no_delete(db, note_id, content, failing, pass) ==
    LET found == ExtractLinks(content, db.notes, failing)
    IN  [db EXCEPT
            !.links = @ \o [k \in 1..Len(found) |->
                               [id          |-> db.seq_links + k,
                                src_note    |-> note_id,
                                dst_note    |-> found[k].target,
                                link_text   |-> found[k].link_text,
                                occurrences |-> found[k].occurrences,
                                pass        |-> pass]],
            !.seq_links = @ + Len(found)]

\* A faulty index_links whose DELETE has no WHERE clause: it removes the links
\* of every note.
index_links_delete_all(db, note_id, content, failing, pass) ==
    LET found == ExtractLinks(content, db.notes, failing)
    IN  [db EXCEPT
            !.links = [k \in 1..Len(found) |->
                          [id          |-> db.seq_links + k,
                           src_note    |-> note_id,
                           dst_note    |-> found[k].target,
                           link_text   |-> found[k].link_text,
                           occurrences |-> found[k].occurrences,
                           pass        |-> pass]],
            !.seq_links = @ + Len(found)]

\* DatabaseManager.index_links: one transaction that deletes the note's
\* outbound links and inserts one row per entry of the deduplicated list.  The
\* resolver reads notes on its own connection while the transaction holds the
\* write lock.
index_links(db, note_id, content, failing, pass) ==
    LET found == ExtractLinks(content, db.notes, failing)
    IN  [db EXCEPT
            !.links = RowsNotOf(@, "src_note", note_id)
                      \o [k \in 1..Len(found) |->
                             [id          |-> db.seq_links + k,
                              src_note    |-> note_id,
                              dst_note    |-> found[k].target,
                              link_text   |-> found[k].link_text,
                              occurrences |-> found[k].occurrences,
                              pass        |-> pass]],
            !.seq_links = @ + Len(found)]

\* Whether inserting rows new beside rows old breaks PRIMARY KEY (chunk_id).
ChunkKeyConflict(old, new) ==
    \/ \E i \in 1..Len(old), j \in 1..Len(new) : old[i].chunk_id = new[j].chunk_id
    \/ \E i, j \in 1..Len(new) : i # j /\ new[i].chunk_id = new[j].chunk_id

\* DatabaseManager.create_chunks: one transaction that deletes the note's
\* chunks and inserts those of content; hs is the list index_headings
\* returned.  A key conflict raises sqlite3.IntegrityError and the transaction
\* is rolled back.
create_chunks(db, note_id, content, hs, pass) ==
    LET built == BuildChunks(note_id, content, hs)
        new   == [k \in 1..Len(built) |->
                     [chunk_id     |-> built[k].chunk_id,
                      note_id      |-> built[k].note_id,
                      heading_id   |-> built[k].heading_id,
                      start_offset |-> built[k].start_offset,
                      end_offset   |-> built[k].end_offset,
                      text         |-> built[k].text,
                      pass         |-> pass]]
        kept  == RowsNotOf(db.chunks, "note_id", note_id)
    IN  IF ChunkKeyConflict(kept, new)
        THEN [ok |-> FALSE, db |-> db]
        ELSE [ok |-> TRUE, db |-> [db EXCEPT !.chunks = kept \o new]]

\* The chunk list create_chunks returns, read off the rows it inserted.
ReturnedChunks(db, note_id) ==
    LET rows == RowsOf(db.chunks, "note_id", note_id)
    IN  [k \in 1..Len(rows) |->
            [chunk_id |-> rows[k].chunk_id,
             start    |-> rows[k].start_offset,
             end      |-> rows[k].end_offset,
             text     |-> Preview(rows[k].text)]]

\* ------------------------------------------------------------- queries

\* The characters of the model's texts in ASCII order, for SQL's comparison
\* of TEXT values.
Ascii == <<"\t", LF, " ", "#", "%", ".", "/">> \o
         <<"0", "1", "2", "3", "4", "5", "6", "7", "8", "9">> \o
         UpperCase \o <<"[", "]", "_">> \o LowerCase \o <<"|">>

Code(c) == CHOOSE k \in 1..Len(Ascii) : Ascii[k] = c

\* a < b for TEXT values under the BINARY collation.
RECURSIVE TextLess(_, _)
TextLess(a, b) ==
    IF b = <<>> THEN FALSE
    ELSE IF a = <<>> THEN TRUE
    ELSE IF Head(a) # Head(b) THEN Code(Head(a)) < Code(Head(b))
    ELSE TextLess(Tail(a), Tail(b))

\* The sequence of the elements of set S in the order Before (a strict total
\* order on S).
Sorted(S, before) ==
    [k \in 1..Cardinality(S) |->
        CHOOSE x \in S : Cardinality({y \in S : <<y, x>> \in before}) = k - 1]

\* The row of notes with note_id = id as <<row>>, or <<>> (the LEFT JOIN of
\* get_backlinks).
NoteById(db, id) == RowsOf(db.notes, "note_id", id)

\* A faulty list of possible targets that holds the note's path alone.
PossibleTargets_path_only(note_path, note_title) == {note_path}

\* filter(None, ...) of get_backlinks: the note's path, title, filename and
\* stem, without empty strings.
PossibleTargets(note_path, note_title) ==
    {note_path, note_title, PathName(note_path), PathStem(note_path)} \ {<<>>}

\* A faulty get_backlinks whose query has no ORDER BY: the rows come in the
\* order of the links table.
get_backlinks_unordered(db, note_path) ==
    LET own  == RowsOf(db.notes, "path", note_path)
        Hit(l) == own # <<>> /\ l.dst_note \in PossibleTargets(note_path, own[1].title)
        rows == SelectSeq(db.links, Hit)
    IN  [k \in 1..Len(rows) |->
            LET n == NoteById(db, rows[k].src_note)
            IN  [src_note    |-> rows[k].src_note,
                 src_title   |-> IF n = <<>> THEN None ELSE <<n[1].title>>,
                 src_path    |-> IF n = <<>> THEN None ELSE <<n[1].path>>,
                 link_text   |-> rows[k].link_text,
                 occurrences |-> rows[k].occurrences]]

\* DatabaseManager.get_backlinks.  The query walks idx_links_dst for the IN
\* values in ascending order and sorts by occurrences DESC, modified_at DESC;
\* rows equal in both keep the order of the walk (dst_note, then id).
get_backlinks(db, note_path) ==
    LET own  == RowsOf(db.notes, "path", note_path)
        hit  == IF own = <<>> THEN {}
                ELSE {k \in 1..Len(db.links) :
                         db.links[k].dst_note \in
                             PossibleTargets(note_path, own[1].title)}
        Mod(k) == LET n == NoteById(db, db.links[k].src_note)
                  IN  IF n = <<>> THEN <<>> ELSE <<n[1].modified_at>>
        \* NULL sorts last under DESC
        ModBefore(x, y) == x # <<>> /\ (y = <<>> \/ x[1] > y[1])
        Before(i, j) ==
            LET a == db.links[i]
                c == db.links[j]
            IN  \/ a.occurrences > c.occurrences
                \/ /\ a.occurrences = c.occurrences
                   /\ \/ ModBefore(Mod(i), Mod(j))
                      \/ /\ Mod(i) = Mod(j)
                         /\ \/ TextLess(a.dst_note, c.dst_note)
                            \/ a.dst_note = c.dst_note /\ a.id < c.id
        order == Sorted(hit, {q \in hit \X hit : Before(q[1], q[2])})
    IN  [k \in 1..Len(order) |->
            LET l == db.links[order[k]]
                n == NoteById(db, l.src_note)
            IN  [src_note    |-> l.src_note,
                 src_title   |-> IF n = <<>> THEN None ELSE <<n[1].title>>,
                 src_path    |-> IF n = <<>> THEN None ELSE <<n[1].path>>,
                 link_text   |-> l.link_text,
                 occurrences |-> l.occurrences]]

\* DatabaseManager.get_note_info: None (<<>>) when no row has the path, else
\* <<info>>.  Headings come ordered by start_offset, equal offsets by id.
get_note_info(db, note_path) ==
    LET own == RowsOf(db.notes, "path", note_path)
        hs  == {k \in 1..Len(db.headings) : db.headings[k].note_id = own[1].note_id}
        Before(i, j) ==
            \/ db.headings[i].start_offset < db.headings[j].start_offset
            \/ /\ db.headings[i].start_offset = db.headings[j].start_offset
               /\ db.headings[i].id < db.headings[j].id
        order == Sorted(hs, {q \in hs \X hs : Before(q[1], q[2])})
    IN  IF own = <<>> THEN None
        ELSE <<[note_id     |-> own[1].note_id,
                path        |-> own[1].path,
                title       |-> own[1].title,
                modified_at |-> own[1].modified_at,
                word_count  |-> own[1].word_count,
                headings    |-> [k \in 1..Len(order) |->
                                    [heading      |-> db.headings[order[k]].heading,
                                     level        |-> db.headings[order[k]].level,
                                     start_offset |-> db.headings[order[k]].start_offset]],
                backlinks   |-> get_backlinks(db, note_path)]>>

\* ------------------------------------------------------------- handlers

\* The answer of server.index_note once its steps have run: d3 is the store
\* after the first three, c4 the outcome of create_chunks, hs the list
\* index_headings returned.
IndexAnswer(d3, c4, hs, req, failAt) ==
    IF failAt = 0 /\ c4.ok
    THEN [db     |-> c4.db,
          status |-> 200,
          body   |-> [indexed_chunks |-> Len(ReturnedChunks(c4.db, req.path)),
                      chunks         |-> ReturnedChunks(c4.db, req.path),
                      headings_count |-> Len(hs),
                      links_count    |-> Len(RowsOf(d3.links, "src_note", req.path)),
                      note_id        |-> req.path]]
    ELSE [db |-> d3, status |-> 500, body |-> <<>>]

\* server.index_note from its fourth step on.
AfterLinks(d3, hs, req, pass, failAt) ==
    IndexAnswer(d3, create_chunks(d3, req.path, req.content, hs, pass), hs, req, failAt)

\* server.index_note from its third step on.
AfterHeadings(d2, hs, req, pass, failAt, failing) ==
    AfterLinks(IF failAt \in {1, 2, 3} THEN d2
               ELSE index_links(d2, req.path, req.content, failing, pass),
               hs, req, pass, failAt)

\* server.index_note from its second step on.
AfterUpsert(d1, req, pass, failAt, failing) ==
    AfterHeadings(IF failAt \in {1, 2} THEN d1
                  ELSE index_headings(d1, req.path, req.content, pass),
                  NewHeadings(d1, req.content), req, pass, failAt, failing)

\* server.index_note run to its end with no other request in between.  Each
\* DatabaseManager call commits on its own connection before the next begins.
\* failAt is the step whose storage operation fails (1 upsert_note,
\* 2 index_headings, 3 index_links, 4 create_chunks; 0: none): the failing call
\* rolls back its own transaction and raises, the steps after it do not run
\* and the handler answers 500.  failing is the set of wikilink matches whose
\* resolver query fails.
index_note(db, req, pass, failAt, failing) ==
    AfterUpsert(IF failAt = 1 THEN db
                ELSE upsert_note(db, req.path, req.content, req.modified_at, pass),
                req, pass, failAt, failing)

\* A faulty server.get_note_info without the clause that re-raises
\* HTTPException: the 404 raised inside the try block is answered as 500.
NoteInfoResponse_all_500(db, path, ok) ==
    LET info == get_note_info(db, path)
    IN  IF ~ok \/ info = None
        THEN [op |-> "note", status |-> 500, body |-> <<>>]
        ELSE [op |-> "note", status |-> 200, body |-> info[1]]

\* server.get_note_info: 404 when the manager returns None, 500 when the
\* manager raises (ok is false when a storage operation of the request
\* fails), else the note's information.
NoteInfoResponse(db, path, ok) ==
    LET info == get_note_info(db, path)
    IN  IF ~ok
        THEN [op |-> "note", status |-> 500, body |-> <<>>]
        ELSE IF info = None
        THEN [op |-> "note", status |-> 404, body |-> <<>>]
        ELSE [op |-> "note", status |-> 200, body |-> info[1]]

\* A faulty server.health that lets the exception of a failed connection
\* escape.
health_raises(ok) ==
    IF ok THEN [op |-> "health", status |-> 200, body |-> [status |-> "ok"]]
    ELSE [op |-> "health", status |-> 500, body |-> <<>>]

\* server.health: ok is whether the default vault's database manager can be
\* had and a connection opened.  Either way the handler returns its answer
\* normally.
health(ok) ==
    IF ok THEN [op |-> "health", status |-> 200, body |-> [status |-> "ok"]]
    ELSE [op |-> "health", status |-> 200,
          body |-> [status |-> "error", error |-> "unable to open database file"]]

\* server.get_graph: the limit most recently modified notes (the walk of
\* idx_notes_modified backwards: equal times by descending rowid) and the
\* links of at least min_degree occurrences.
GraphResponse(db, limit, min_degree) ==
    LET Before(i, j) ==
            \/ db.notes[i].modified_at > db.notes[j].modified_at
            \/ db.notes[i].modified_at = db.notes[j].modified_at /\ i > j
        order == Sorted(1..Len(db.notes),
                        {q \in (1..Len(db.notes)) \X (1..Len(db.notes)) :
                            Before(q[1], q[2])})
        shown == SubSeq(order, 1, IF limit < Len(order) THEN limit ELSE Len(order))
        Wide(l) == l.occurrences >= min_degree
        edges == SelectSeq(db.links, Wide)
    IN  [op |-> "graph", status |-> 200,
         body |-> [nodes |-> [k \in 1..Len(shown) |->
                                 [id         |-> db.notes[shown[k]].note_id,
                                  label      |-> IF db.notes[shown[k]].title # <<>>
                                                 THEN db.notes[shown[k]].title
                                                 ELSE db.notes[shown[k]].path,
                                  path       |-> db.notes[shown[k]].path,
                                  word_count |-> db.notes[shown[k]].word_count]],
                   edges |-> [k \in 1..Len(edges) |->
                                 [source |-> edges[k].src_note,
                                  target |-> edges[k].dst_note,
                                  label  |-> edges[k].link_text,
                                  weight |-> edges[k].occurrences]]]]

\* ---------------------------------------------------------------- inputs

PathA == <<"a", "/", "x", ".", "m", "d">>
PathB == <<"b", "/", "y", ".", "m", "d">>
PathC == <<"c", "/", "z", ".", "m", "d">>

\* "[[B]] [[y|Y]]"
BodyRef ==
    <<"[", "[", "B", "]", "]", " ", "[", "[", "y", "|", "Y", "]", "]">>

\* "# B"
BodyTitleB == <<"#", " ", "B">>

\* "# B\n\ns\n\n## U\n[[B]]"
BodyTwo ==
    <<"#", " ", "B", LF, LF, "s", LF, LF, "#", "#", " ", "U", LF,
      "[", "[", "B", "]", "]">>

Paths == {PathA, PathB, PathC}
Bodies == {BodyRef, BodyTitleB, BodyTwo}
Times == {1, 2}

\* The paths the concurrent requests index.
SharedPaths == {PathA, PathB}

\* Bounds of the exploration: the /index requests of a concurrent run, the
\* calls of a sequential run, the calls of a sequential run with failures, the
\* notes the resolver is tried against.
MaxRequests == 2
MaxCalls == 4
MaxFailCalls == 2
MaxNotes == 2

\* Inputs of the resolver and of index_links on their own.
ResolverPaths ==
    {PathA,
     <<"b", "/", "x", ".", "m", "d">>,
     <<"a", "/", "x">>,
     <<"x">>,
     <<"x", ".", "m", "d">>}

ResolverTitles == {<<"T">>, <<"x">>}

ResolverTargets ==
    {<<"x">>, <<"X">>, <<"T">>, <<"x", ".", "m", "d">>, <<"_">>, <<"q">>}

\* "[[x]][[x|a]]"
LinksTwice ==
    <<"[", "[", "x", "]", "]", "[", "[", "x", "|", "a", "]", "]">>

\* "[[T|a]] [[x]] [[q]]"
LinksMixed ==
    <<"[", "[", "T", "|", "a", "]", "]", " ", "[", "[", "x", "]", "]", " ",
      "[", "[", "q", "]", "]">>

\* "[[x| ]][[ x ]]"
LinksBlankAlias ==
    <<"[", "[", "x", "|", " ", "]", "]", "[", "[", " ", "x", " ", "]", "]">>

\* "[[q]] [[X]] [[x.md|b]] [[q|c]]"
LinksCase ==
    <<"[", "[", "q", "]", "]", " ", "[", "[", "X", "]", "]", " ",
      "[", "[", "x", ".", "m", "d", "|", "b", "]", "]", " ",
      "[", "[", "q", "|", "c", "]", "]">>

LinkBodies == {LinksTwice, LinksMixed, LinksBlankAlias, LinksCase}

\* ----------------------------------------------------------------- state

VARIABLES
    db,        \* the SQLite database
    calls,     \* the /index requests so far, each with its position in the handler
    response,  \* the last response of a read request
    hist,      \* history of a sequential run: its last calls, the store before the last
    input,     \* argument of the function under test
    output     \* its result

vars == <<db, calls, response, hist, input, output>>

\* n: the calls so far.  window: the last three calls, latest last, each with its
\* arguments, its outcome, the title it stored and the link targets of its
\* content that matched no note when it ran.  before: the store before the
\* latest call.  src: for each path, the content and pass of its latest
\* successful call and the notes table that call resolved against.
HistInit ==
    [n      |-> 0,
     window |-> <<>>,
     before |-> EmptyStore,
     src    |-> [p \in Paths |-> <<>>]]

Init ==
    /\ db = EmptyStore
    /\ calls = <<>>
    /\ response = <<>>
    /\ hist = HistInit
    /\ input = <<>>
    /\ output = <<>>

\* ------------------------------------------ concurrent requests (Spec)

InFlight(c) == c.pc \in {"headings", "links", "chunks"}

\* A request enters server.index_note and runs upsert_note.
StartIndex(path, content, modified_at, ok) ==
    /\ Len(calls) < MaxRequests
    /\ db' = IF ok THEN upsert_note(db, path, content, modified_at, Len(calls) + 1)
             ELSE db
    /\ calls' = Append(calls, [path        |-> path,
                               content     |-> content,
                               modified_at |-> modified_at,
                               pc          |-> IF ok THEN "headings" ELSE "failed",
                               headings    |-> <<>>])
    /\ UNCHANGED <<response, hist, input, output>>

\* Request k runs index_headings.
StepHeadings(k, ok) ==
    /\ calls[k].pc = "headings"
    /\ db' = IF ok THEN index_headings(db, calls[k].path, calls[k].content, k) ELSE db
    /\ calls' = [calls EXCEPT ![k].pc = IF ok THEN "links" ELSE "failed",
                              ![k].headings = IF ok THEN NewHeadings(db, calls[k].content)
                                              ELSE <<>>]
    /\ UNCHANGED <<response, hist, input, output>>

\* Request k runs index_links.
StepLinks(k, ok) ==
    /\ calls[k].pc = "links"
    /\ db' = IF ok THEN index_links(db, calls[k].path, calls[k].content, {}, k) ELSE db
    /\ calls' = [calls EXCEPT ![k].pc = IF ok THEN "chunks" ELSE "failed"]
    /\ UNCHANGED <<response, hist, input, output>>

\* Request k runs create_chunks and answers.
StepChunks(k, ok) ==
    /\ calls[k].pc = "chunks"
    /\ LET r == create_chunks(db, calls[k].path, calls[k].content, calls[k].headings, k)
       IN  /\ db' = IF ok THEN r.db ELSE db
           /\ calls' = [calls EXCEPT ![k].pc = IF ok /\ r.ok THEN "done" ELSE "failed"]
    /\ UNCHANGED <<response, hist, input, output>>

\* A GET /note request; no storage operation fails in this specification.
GetNoteInfo(path) ==
    /\ response' = NoteInfoResponse(db, path, TRUE)
    /\ UNCHANGED <<db, calls, hist, input, output>>

\* A GET /graph request.
GetGraph(limit, min_degree) ==
    /\ response' = GraphResponse(db, limit, min_degree)
    /\ UNCHANGED <<db, calls, hist, input, output>>

Next ==
    \/ \E path \in SharedPaths, content \in Bodies, modified_at \in Times,
          ok \in BOOLEAN :
           StartIndex(path, content, modified_at, ok)
    \/ \E k \in 1..Len(calls), ok \in BOOLEAN : StepHeadings(k, ok)
    \/ \E k \in 1..Len(calls), ok \in BOOLEAN : StepLinks(k, ok)
    \/ \E k \in 1..Len(calls), ok \in BOOLEAN : StepChunks(k, ok)
    \/ \E path \in SharedPaths : GetNoteInfo(path)
    \/ \E q \in {<<1, 2>>, <<500, 0>>} : GetGraph(q[1], q[2])

Spec == Init /\ [][Next]_vars

\* ------------------------------------- sequential calls (SpecSeq, SpecFail)

\* The link targets of content that match no row of notes.
Unresolved(content, rows) ==
    {m.target : m \in {x \in Range(FindLinks(content)) :
                          \A k \in 1..Len(rows) : ~IsCandidate(rows[k], x.target)}}

\* The record of a call in the history window.
CallRecord(req, failAt, failing, status, after) ==
    LET own == RowsOf(after.notes, "path", req.path)
    IN  [path        |-> req.path,
         content     |-> req.content,
         modified_at |-> req.modified_at,
         failAt      |-> failAt,
         failing     |-> failing,
         status      |-> status,
         title       |-> IF own = <<>> THEN <<>> ELSE own[1].title,
         unresolved  |-> Unresolved(req.content, after.notes)]

\* One /index request handled from start to end, alone.  failAt is the step
\* whose storage operation fails (0: none), failing the positions of the
\* wikilinks whose resolver query fails.
IndexNote(path, content, modified_at, failAt, failing) ==
    \E req \in {[path |-> path, content |-> content, modified_at |-> modified_at]} :
    \E r \in {index_note(db, req, hist.n + 1, failAt, failing)} :
    \E w \in {Append(hist.window, CallRecord(req, failAt, failing, r.status, r.db))} :
        /\ db' = r.db
        /\ hist' = [n      |-> hist.n + 1,
                    window |-> IF Len(w) > 3 THEN Tail(w) ELSE w,
                    before |-> db,
                    src    |-> IF r.status = 200
                               THEN [hist.src EXCEPT ![path] =
                                        <<[content |-> content,
                                           pass    |-> hist.n + 1,
                                           notes   |-> r.db.notes]>>]
                               ELSE hist.src]
        /\ UNCHANGED <<calls, response, input, output>>

NextSeq ==
    \E path \in Paths, content \in Bodies, modified_at \in {1} :
        hist.n < MaxCalls /\ IndexNote(path, content, modified_at, 0, {})

SpecSeq == Init /\ [][NextSeq]_vars

NextFail ==
    \E path \in SharedPaths, content \in Bodies, modified_at \in {1}, failAt \in 0..4 :
    \E failing \in {{}, {1}} :
        hist.n < MaxFailCalls /\ IndexNote(path, content, modified_at, failAt, failing)

SpecFail == Init /\ [][NextFail]_vars

\* -------------------------- the resolver and index_links alone (SpecResolver)

\* A note of the given title is indexed: its body is "# title".
AddNote(path, title) ==
    /\ output = <<>>
    /\ Len(db.notes) < MaxNotes
    /\ \A k \in 1..Len(db.notes) : db.notes[k].path # path
    /\ db' = upsert_note(db, path, <<"#", " ">> \o title, 1, Len(db.notes) + 1)
    /\ UNCHANGED <<calls, response, hist, input, output>>

\* _resolve_link_target(target) against the notes indexed so far.
Resolve(target) ==
    /\ output = <<>>
    /\ input' = [op |-> "resolve", target |-> target]
    /\ output' = <<_resolve_link_target(db.notes, target, TRUE)>>
    /\ UNCHANGED <<db, calls, response, hist>>

\* index_links(note_id, content) for a note indexed before.
IndexLinks(note_id, content) ==
    /\ output = <<>>
    /\ \E k \in 1..Len(db.notes) : db.notes[k].note_id = note_id
    /\ \E links \in {ExtractLinks(content, db.notes, {})} :
       \E r \in {index_links(db, note_id, content, {}, Len(db.notes) + 1)} :
           /\ input' = [op |-> "index_links", note_id |-> note_id, content |-> content]
           /\ db' = r
           /\ output' = <<[k \in 1..Len(links) |->
                             [target    |-> links[k].target,
                              link_text |-> links[k].link_text]]>>
    /\ UNCHANGED <<calls, response, hist>>

NextResolver ==
    \/ \E path \in ResolverPaths, title \in ResolverTitles : AddNote(path, title)
    \/ \E target \in ResolverTargets : Resolve(target)
    \/ \E note_id \in ResolverPaths, content \in LinkBodies : IndexLinks(note_id, content)

SpecResolver == Init /\ [][NextResolver]_vars

\* ------------------------------------------ long bodies (SpecChunks)

\* n copies of the character c.
Repeat(c, n) == [k \in 1..n |-> c]

\* The paragraphs the bodies are built from: none holds a blank line.  An
\* empty paragraph stands for a run of more than two newlines, ParHalf fills
\* half of max_chunk_size, ParFull all of it, ParOver one character more.
ParEmpty == <<>>
ParBlank == <<" ">>
ParShort == <<"p">>
ParHeading == <<"#", " ", "T">>
ParHalf == Repeat("a", max_chunk_size \div 2)
ParFull == Repeat("y", max_chunk_size)
ParOver == Repeat("x", max_chunk_size + 1)

ParagraphKinds == {ParEmpty, ParBlank, ParShort, ParHeading, ParHalf, ParFull, ParOver}

\* Longest body, in paragraphs.
MaxParagraphs == 3

\* The client appends a paragraph to the body it is about to send; hist.n
\* counts the paragraphs.
AddParagraph(paragraph) ==
    /\ output = <<>>
    /\ hist.n < MaxParagraphs
    /\ input' = IF hist.n = 0 THEN paragraph ELSE input \o <<LF, LF>> \o paragraph
    /\ hist' = [hist EXCEPT !.n = @ + 1]
    /\ UNCHANGED <<db, calls, response, output>>

\* One /index request with the body built so far, handled from start to end.
IndexBody(path) ==
    /\ output = <<>>
    /\ \E r \in {index_note(db, [path |-> path, content |-> input, modified_at |-> 1],
                            1, 0, {})} :
           /\ db' = r.db
           /\ output' = <<[status |-> r.status, body |-> r.body]>>
    /\ UNCHANGED <<calls, response, hist, input>>

NextChunks ==
    \/ \E paragraph \in ParagraphKinds : AddParagraph(paragraph)
    \/ IndexBody(PathA)

SpecChunks == Init /\ [][NextChunks]_vars

\* -------------------------------------- heading lists (SpecHeadings)

\* Start offsets of the headings and of the chunks put to
\* _find_heading_for_chunk.
HeadingOffsets == {0, 40, 50, 60}
ChunkStarts == {0, 39, 50, 70}

\* Longest heading list.
MaxHeadings == 3

\* One more heading in the list handed to _find_heading_for_chunk; ids are
\* given in the order of insertion, as index_headings gives them.
AddHeading(start_offset) ==
    /\ output = <<>>
    /\ Len(input) < MaxHeadings
    /\ input' = Append(input, [id           |-> Len(input) + 1,
                               heading      |-> <<"T">>,
                               level        |-> 1,
                               start_offset |-> start_offset])
    /\ UNCHANGED <<db, calls, response, hist, output>>

\* _find_heading_for_chunk(headings, chunk_start) on the list built so far.
FindHeading(chunk_start) ==
    /\ output = <<>>
    /\ output' = <<[chunk_start |-> chunk_start,
                    heading_id  |-> _find_heading_for_chunk(input, chunk_start)]>>
    /\ UNCHANGED <<db, calls, response, hist, input>>

NextHeadings ==
    \/ \E start_offset \in HeadingOffsets : AddHeading(start_offset)
    \/ \E chunk_start \in ChunkStarts : FindHeading(chunk_start)

SpecHeadings == Init /\ [][NextHeadings]_vars

\* ------------------------------------------- short bodies (SpecTitles)

\* The lines the bodies are built from: headings of level 1, 2 and 6, a
\* level-1 heading set in from the margin, a '#' with no whitespace after it,
\* seven '#' before a text, and plain text.
LineTitle == <<"#", " ", "T">>
LineSub == <<"#", "#", " ", "U">>
LineDeep == <<"#", "#", "#", "#", "#", "#", " ", "W">>
LineIndented == <<" ", "#", "\t", "V", " ">>
LineTag == <<"#", "x">>
LineSeven == <<"#", "#", "#", "#", "#", "#", "#", " ", "Z">>
LineText == <<"s">>

LineKinds ==
    {LineTitle, LineSub, LineDeep, LineIndented, LineTag, LineSeven, LineText}

\* The paths of the notes the bodies are indexed at.
TitlePaths == {PathA, PathB}

\* Longest body, in lines.
MaxLines == 3

\* The client appends a line to the body it is about to send; hist.n counts
\* the lines.
AddLine(line) ==
    /\ output = <<>>
    /\ hist.n < MaxLines
    /\ input' = IF hist.n = 0 THEN line ELSE input \o <<LF>> \o line
    /\ hist' = [hist EXCEPT !.n = @ + 1]
    /\ UNCHANGED <<db, calls, response, output>>

\* One /index request with the body built so far, at the given path.
IndexLines(path) ==
    /\ output = <<>>
    /\ \E r \in {index_note(db, [path |-> path, content |-> input, modified_at |-> 1],
                            1, 0, {})} :
           /\ db' = r.db
           /\ output' = <<[status |-> r.status, path |-> path]>>
    /\ UNCHANGED <<calls, response, hist, input>>

NextTitles ==
    \/ \E line \in LineKinds : AddLine(line)
    \/ \E path \in TitlePaths : IndexLines(path)

SpecTitles == Init /\ [][NextTitles]_vars

\* ----------------------------------- reads after indexing (SpecQuery)

\* The bodies indexed before the reads.
QueryBodies == {BodyRef, BodyTwo}

\* Longest run of /index requests before a read.
MaxQueryCalls == 3

\* One /index request handled from start to end.
QueryIndex(path, content, modified_at) ==
    /\ output = <<>>
    /\ hist.n < MaxQueryCalls
    /\ IndexNote(path, content, modified_at, 0, {})

\* DatabaseManager.get_backlinks(note_path).
GetBacklinks(note_path) ==
    /\ output = <<>>
    /\ input' = [op |-> "backlinks", path |-> note_path, ok |-> TRUE]
    /\ output' = <<get_backlinks(db, note_path)>>
    /\ UNCHANGED <<db, calls, response, hist>>

\* A GET /note request; ok is false when a storage operation of it fails.
QueryNoteInfo(path, ok) ==
    /\ output = <<>>
    /\ input' = [op |-> "note", path |-> path, ok |-> ok]
    /\ output' = <<NoteInfoResponse(db, path, ok)>>
    /\ UNCHANGED <<db, calls, response, hist>>

\* A GET /health request; ok is false when the database cannot be opened.
Health(ok) ==
    /\ output = <<>>
    /\ input' = [op |-> "health", path |-> <<>>, ok |-> ok]
    /\ output' = <<health(ok)>>
    /\ UNCHANGED <<db, calls, response, hist>>

NextQuery ==
    \/ \E path \in Paths, content \in QueryBodies, modified_at \in Times :
           QueryIndex(path, content, modified_at)
    \/ \E note_path \in Paths : GetBacklinks(note_path)
    \/ \E path \in Paths, ok \in BOOLEAN : QueryNoteInfo(path, ok)
    \/ \E ok \in BOOLEAN : Health(ok)

SpecQuery == Init /\ [][NextQuery]_vars

\* ------------------------- link passes among other writers (SpecPass)

\* "[[B]] [[B]]"
BodyTwice ==
    <<"[", "[", "B", "]", "]", " ", "[", "[", "B", "]", "]">>

PassBodies == {BodyTwice, BodyTitleB}

\* The /index requests of a run.
MaxPassRequests == 2

\* The body of the loop of index_links for one match, once its target is
\* resolved: a destination seen before is counted, a new one is appended with
\* the link text of the match.
CountLink(links, match, normalized_target) ==
    IF \E j \in 1..Len(links) : links[j].target = normalized_target
    THEN [j \in 1..Len(links) |->
             IF links[j].target = normalized_target
             THEN [links[j] EXCEPT !.occurrences = @ + 1]
             ELSE links[j]]
    ELSE Append(links, [target      |-> normalized_target,
                        link_text   |-> LinkText(match),
                        occurrences |-> 1])

\* A request is inside index_links, between its DELETE and its commit: its
\* connection holds the write lock of the database, and no other connection
\* can write until it commits.
Resolving(c) == c.pc = "resolving"

WriteLocked == \E k \in 1..Len(calls) : Resolving(calls[k])

\* A request enters server.index_note and runs upsert_note.
PassStart(path, content, modified_at) ==
    /\ Len(calls) < MaxPassRequests
    /\ ~WriteLocked
    /\ db' = upsert_note(db, path, content, modified_at, Len(calls) + 1)
    /\ calls' = Append(calls, [path        |-> path,
                               content     |-> content,
                               modified_at |-> modified_at,
                               pc          |-> "headings",
                               headings    |-> <<>>,
                               links       |-> <<>>,
                               resolved    |-> <<>>])
    /\ UNCHANGED <<response, hist, input, output>>

\* Request k runs index_headings.
PassHeadings(k) ==
    /\ calls[k].pc = "headings"
    /\ ~WriteLocked
    /\ db' = index_headings(db, calls[k].path, calls[k].content, k)
    /\ calls' = [calls EXCEPT ![k].pc = "links",
                              ![k].headings = NewHeadings(db, calls[k].content)]
    /\ UNCHANGED <<response, hist, input, output>>

\* Request k enters index_links and executes its DELETE, which opens the
\* write transaction.
PassBeginLinks(k) ==
    /\ calls[k].pc = "links"
    /\ ~WriteLocked
    /\ calls' = [calls EXCEPT ![k].pc = "resolving"]
    /\ UNCHANGED <<db, response, hist, input, output>>

\* Request k resolves the next match of its content on a connection of its
\* own, which reads the committed notes; ok is false when the query fails.
\* resolved records, for each match, its target, the destination returned
\* and the notes the query read.
PassResolve(k, ok) ==
    /\ Resolving(calls[k])
    /\ Len(calls[k].resolved) < Len(FindLinks(calls[k].content))
    /\ \E match \in {FindLinks(calls[k].content)[Len(calls[k].resolved) + 1]} :
       \E normalized_target \in {_resolve_link_target(db.notes, match.target, ok)} :
           calls' = [calls EXCEPT
                        ![k].links = CountLink(@, match, normalized_target),
                        ![k].resolved = Append(@, [target |-> match.target,
                                                   dst    |-> normalized_target,
                                                   notes  |-> db.notes])]
    /\ UNCHANGED <<db, response, hist, input, output>>

\* Request k inserts its links and commits.
PassCommitLinks(k) ==
    /\ Resolving(calls[k])
    /\ Len(calls[k].resolved) = Len(FindLinks(calls[k].content))
    /\ db' = [db EXCEPT
                 !.links = RowsNotOf(@, "src_note", calls[k].path)
                           \o [j \in 1..Len(calls[k].links) |->
                                  [id          |-> db.seq_links + j,
                                   src_note    |-> calls[k].path,
                                   dst_note    |-> calls[k].links[j].target,
                                   link_text   |-> calls[k].links[j].link_text,
                                   occurrences |-> calls[k].links[j].occurrences,
                                   pass        |-> k]],
                 !.seq_links = @ + Len(calls[k].links)]
    /\ calls' = [calls EXCEPT ![k].pc = "chunks"]
    /\ UNCHANGED <<response, hist, input, output>>

\* Request k runs create_chunks and answers.
PassChunks(k) ==
    /\ calls[k].pc = "chunks"
    /\ ~WriteLocked
    /\ \E r \in {create_chunks(db, calls[k].path, calls[k].content,
                               calls[k].headings, k)} :
           /\ db' = r.db
           /\ calls' = [calls EXCEPT ![k].pc = IF r.ok THEN "done" ELSE "failed"]
    /\ UNCHANGED <<response, hist, input, output>>

\* The next step of request k is a write while another request holds the
\* write lock: it waits, and when the connection's timeout runs out it raises
\* "database is locked" and the request answers 500.
PassTimeout(k) ==
    /\ calls[k].pc \in {"headings", "links", "chunks"}
    /\ WriteLocked
    /\ calls' = [calls EXCEPT ![k].pc = "failed"]
    /\ UNCHANGED <<db, response, hist, input, output>>

NextPass ==
    \/ \E path \in SharedPaths, content \in PassBodies :
           PassStart(path, content, 1)
    \/ \E k \in 1..Len(calls) : PassHeadings(k)
    \/ \E k \in 1..Len(calls) : PassBeginLinks(k)
    \/ \E k \in 1..Len(calls), ok \in BOOLEAN : PassResolve(k, ok)
    \/ \E k \in 1..Len(calls) : PassCommitLinks(k)
    \/ \E k \in 1..Len(calls) : PassChunks(k)
    \/ \E k \in 1..Len(calls) : PassTimeout(k)

SpecPass == Init /\ [][NextPass]_vars

\* ------------------------------------------------------------ properties

\* The rows of note p in the four stores.
NoteView(d, p) ==
    [notes    |-> RowsOf(d.notes, "path", p),
     headings |-> RowsOf(d.headings, "note_id", p),
     links    |-> RowsOf(d.links, "src_note", p),
     chunks   |-> RowsOf(d.chunks, "note_id", p)]

\* The index requests that wrote the rows of note p.
PassesOf(d, p) ==
    {r.pass : r \in Range(NoteView(d, p).notes) \cup Range(NoteView(d, p).headings)
                    \cup Range(NoteView(d, p).links) \cup Range(NoteView(d, p).chunks)}

LastCall == hist.window[Len(hist.window)]

\* C1: after an index request, failed or not, the four stores either all
\* reflect the submitted content (they hold what the request leaves when every
\* step succeeds) or all hold exactly the rows of the note they held before it.
C1_AllOrNothing ==
    hist.n > 0 =>
        \/ NoteView(db, LastCall.path) = NoteView(hist.before, LastCall.path)
        \/ NoteView(db, LastCall.path) =
               NoteView(index_note(hist.before,
                                   [path        |-> LastCall.path,
                                    content     |-> LastCall.content,
                                    modified_at |-> LastCall.modified_at],
                                   hist.n, 0, {}).db,
                        LastCall.path)

\* C2: while no request has failed, a 200 response of GET /note shows the note
\* as one index request left it: its title, word count, modification time and
\* headings all come from the content of one request for that note, never the
\* row of one request beside the headings of another or of none.
C2_ReadsOneVersion ==
    (/\ response # <<>>
     /\ response.op = "note"
     /\ response.status = 200
     /\ \A k \in 1..Len(calls) : calls[k].pc # "failed") =>
        \E k \in 1..Len(calls) :
            /\ calls[k].path = response.body.path
            /\ response.body.title = _extract_title(calls[k].content, calls[k].path)
            /\ response.body.word_count = CountWords(calls[k].content)
            /\ response.body.modified_at = calls[k].modified_at
            /\ response.body.headings = ExtractHeadings(calls[k].content)

\* C3: when two index requests for the same note with different bodies have
\* both completed, all rows of the note in the four stores were written by one
\* of the two, and its chunks refer to headings that are stored for the note.
C3_OneWriterWins ==
    \A i, j \in 1..Len(calls) :
        (/\ i < j
         /\ calls[i].pc = "done" /\ calls[j].pc = "done"
         /\ calls[i].path = calls[j].path
         /\ calls[i].content # calls[j].content) =>
            /\ \E k \in {i, j} : PassesOf(db, calls[i].path) = {k}
            /\ \A c \in Range(NoteView(db, calls[i].path).chunks) :
                   c.heading_id # None =>
                       \E h \in Range(NoteView(db, calls[i].path).headings) :
                           h.id = c.heading_id[1]

\* What the stores hold for note p apart from surrogate row ids: its headings,
\* its links, and its chunks, each chunk with the heading its heading_id names.
HeadingNamed(d, id) ==
    IF id = None THEN None
    ELSE IF \A h \in Range(d.headings) : h.id # id[1] THEN <<"dangling">>
    ELSE LET h == CHOOSE x \in Range(d.headings) : x.id = id[1]
         IN  <<[note_id |-> h.note_id, heading |-> h.heading, level |-> h.level,
                start_offset |-> h.start_offset]>>

Derived(d, p) ==
    LET v == NoteView(d, p)
    IN  [headings |-> [k \in 1..Len(v.headings) |->
                          [heading      |-> v.headings[k].heading,
                           level        |-> v.headings[k].level,
                           start_offset |-> v.headings[k].start_offset]],
         links    |-> [k \in 1..Len(v.links) |->
                          [target      |-> v.links[k].dst_note,
                           link_text   |-> v.links[k].link_text,
                           occurrences |-> v.links[k].occurrences]],
         chunks   |-> [k \in 1..Len(v.chunks) |->
                          [chunk_id     |-> v.chunks[k].chunk_id,
                           start_offset |-> v.chunks[k].start_offset,
                           end_offset   |-> v.chunks[k].end_offset,
                           text         |-> v.chunks[k].text,
                           heading      |-> HeadingNamed(d, v.chunks[k].heading_id)]]]

\* The latest call repeats the arguments of the successful call before it.
RepeatedCall ==
    /\ Len(hist.window) >= 2
    /\ LET a == hist.window[Len(hist.window) - 1]
       IN  /\ a.status = 200 /\ LastCall.status = 200
           /\ a.path = LastCall.path
           /\ a.content = LastCall.content
           /\ a.modified_at = LastCall.modified_at

\* C4: a second index call with the path, content and modification time of the
\* successful call just before it leaves the note's headings (up to row ids),
\* links and chunks (count, ids, offsets, text, the heading each belongs to) as
\* the first call left them.
C4_Idempotent ==
    RepeatedCall => Derived(db, LastCall.path) = Derived(hist.before, LastCall.path)

\* C4 witness: a repeated call for a note with headings, links and a chunk
\* under a heading, whose heading rows were given new ids.
C4_Repeated ==
    /\ hist.n > 0
    /\ RepeatedCall
    /\ Derived(db, LastCall.path).links # <<>>
    /\ \E c \in Range(Derived(db, LastCall.path).chunks) : c.heading # None
    /\ NoteView(db, LastCall.path).headings # NoteView(hist.before, LastCall.path).headings

\* C5: the rows of every note are those derived from the content of its latest
\* index call (headings, links as resolved when that call ran, chunks), all
\* written by that call, nothing of earlier content remains, and no two link
\* rows share source and destination.
C5_FullReplace ==
    /\ \A p \in Paths :
           IF hist.src[p] = <<>>
           THEN NoteView(db, p) = NoteView(EmptyStore, p)
           ELSE LET s  == hist.src[p][1]
                    hs == [k \in 1..Len(NoteView(db, p).headings) |->
                              [id           |-> NoteView(db, p).headings[k].id,
                               heading      |-> NoteView(db, p).headings[k].heading,
                               level        |-> NoteView(db, p).headings[k].level,
                               start_offset |-> NoteView(db, p).headings[k].start_offset]]
                    built == BuildChunks(p, s.content, hs)
                IN  /\ PassesOf(db, p) = {s.pass}
                    /\ Len(NoteView(db, p).notes) = 1
                    /\ Derived(db, p).headings = ExtractHeadings(s.content)
                    /\ Derived(db, p).links = ExtractLinks(s.content, s.notes, {})
                    /\ Len(NoteView(db, p).chunks) = Len(built)
                    /\ \A k \in 1..Len(built) :
                           /\ NoteView(db, p).chunks[k].chunk_id = built[k].chunk_id
                           /\ NoteView(db, p).chunks[k].heading_id = built[k].heading_id
                           /\ NoteView(db, p).chunks[k].start_offset = built[k].start_offset
                           /\ NoteView(db, p).chunks[k].end_offset = built[k].end_offset
                           /\ NoteView(db, p).chunks[k].text = built[k].text
    /\ \A i, j \in 1..Len(db.links) :
           (db.links[i].src_note = db.links[j].src_note
            /\ db.links[i].dst_note = db.links[j].dst_note) => i = j

\* C5 witness: a note that had headings and links is indexed again with
\* content that has no heading and other links.
C5_Reindexed ==
    /\ Len(hist.window) >= 2
    /\ hist.window[Len(hist.window) - 1].path = LastCall.path
    /\ Derived(hist.before, LastCall.path).headings # <<>>
    /\ Derived(hist.before, LastCall.path).links # <<>>
    /\ Derived(db, LastCall.path).headings = <<>>
    /\ Derived(db, LastCall.path).links # Derived(hist.before, LastCall.path).links

\* C7: (1) after an index call, every wikilink target of the content that no
\* note matched is stored as a link whose destination is the target text
\* itself; (2) when a note A was indexed with a target no note matched, then
\* another note with that title was indexed, then A was indexed again with the
\* same content, A has a link to the path of that note and none to the raw
\* target text.
C7_ForwardReference ==
    /\ hist.n > 0 =>
           \A t \in LastCall.unresolved :
               \E l \in Range(NoteView(db, LastCall.path).links) : l.dst_note = t
    /\ (/\ Len(hist.window) = 3
        /\ hist.window[1].path = hist.window[3].path
        /\ hist.window[1].content = hist.window[3].content
        /\ hist.window[2].path # hist.window[1].path
        /\ hist.window[2].title \in hist.window[1].unresolved) =>
           /\ \E l \in Range(NoteView(db, hist.window[3].path).links) :
                  l.dst_note = hist.window[2].path
           /\ \A l \in Range(NoteView(db, hist.window[3].path).links) :
                  l.dst_note # hist.window[2].title

\* C7 witness: A, then a note titled as one of A's unmatched targets, then A
\* again, while another target of A still matches no note.
C7_Repointed ==
    /\ Len(hist.window) = 3
    /\ hist.window[1].path = hist.window[3].path
    /\ hist.window[1].content = hist.window[3].content
    /\ hist.window[2].path # hist.window[1].path
    /\ hist.window[2].title \in hist.window[1].unresolved
    /\ hist.window[3].unresolved # {}
    /\ \E l \in Range(NoteView(hist.before, hist.window[1].path).links) :
           l.dst_note = hist.window[2].title

\* The display text of a token: its alias whenever it has one; its alias when
\* it has one that is not blank.
AliasIfPresent(m) == IF m.alias # None THEN m.alias[1] ELSE m.target

AliasIfNotBlank(m) == IF m.alias # None /\ m.alias[1] # <<>> THEN m.alias[1] ELSE m.target

\* The tokens of the content index_links was given and the note each resolves
\* to; the link rows of the note must be one per distinct destination, each
\* counting the tokens of its destination and showing Text of the first.
LinkRowsAre(blankCounts) ==
    (output # <<>> /\ input.op = "index_links") =>
        LET Text(m) == IF blankCounts THEN AliasIfPresent(m) ELSE AliasIfNotBlank(m)
            toks == FindLinks(input.content)
            Dst(k) == _resolve_link_target(db.notes, toks[k].target, TRUE)
            rows == NoteView(db, input.note_id).links
        IN  /\ {rows[i].dst_note : i \in 1..Len(rows)} = {Dst(k) : k \in 1..Len(toks)}
            /\ \A i, j \in 1..Len(rows) : rows[i].dst_note = rows[j].dst_note => i = j
            /\ \A i \in 1..Len(rows) :
                   LET ks == {k \in 1..Len(toks) : Dst(k) = rows[i].dst_note}
                   IN  /\ rows[i].occurrences = Cardinality(ks)
                       /\ rows[i].link_text = Text(toks[Min(ks)])

\* C6 as stated: the wikilink tokens of a body are grouped by resolved
\* destination; each destination has exactly one link row, whose occurrence
\* count is the number of its tokens and whose display text is that of its
\* first token: the alias if the token has one, else the raw target.
C6_DedupeAliasIfPresent == LinkRowsAre(TRUE)

\* C6 amended: as above, the display text of the first token being its alias
\* if the token has one that is not blank, else the raw target.
C6_DedupeAliasIfNotBlank == LinkRowsAre(FALSE)

\* C6 witness: a body with two tokens of different raw targets that resolve to
\* one note, stored as one row of two occurrences showing the first's alias.
C6_Merged ==
    /\ output # <<>> /\ input.op = "index_links"
    /\ \E a, b \in Range(FindLinks(input.content)) :
           /\ a.target # b.target
           /\ _resolve_link_target(db.notes, a.target, TRUE)
                  = _resolve_link_target(db.notes, b.target, TRUE)
           /\ a.alias # None
           /\ \E l \in Range(NoteView(db, input.note_id).links) :
                  /\ l.dst_note = _resolve_link_target(db.notes, a.target, TRUE)
                  /\ l.occurrences = 2
                  /\ l.link_text = a.alias[1]

\* The ranks as the specification states them and as amended.
StatedRank(row, target) ==
    IF row.title = target THEN 1
    ELSE IF row.path = target THEN 2
    ELSE IF PathName(row.path) = target THEN 3
    ELSE 4

AmendedRank(row, target) ==
    IF row.title = target THEN 1
    ELSE IF row.path = target THEN 2
    ELSE IF Like(row.path, <<"%", "/">> \o target \o <<".", "m", "d">>) THEN 3
    ELSE 4

\* A resolver call returns the path of a candidate whose rank no other
\* candidate beats, under the ranks as stated or as amended.
BestRankReturned(asStated) ==
    (output # <<>> /\ input.op = "resolve") =>
        LET Rank(row, target) == IF asStated THEN StatedRank(row, target)
                                 ELSE AmendedRank(row, target)
            cand == {i \in 1..Len(db.notes) : IsCandidate(db.notes[i], input.target)}
        IN  cand # {} =>
                \E i \in cand :
                    /\ db.notes[i].path = output[1]
                    /\ \A j \in cand : Rank(db.notes[i], input.target)
                                           <= Rank(db.notes[j], input.target)

\* C8 as stated: with rank 1 = title equals the target, 2 = path equals the
\* target, 3 = filename with extension equals the target, 4 = any other match,
\* the resolver returns the path of a candidate of the best rank present.
C8_StatedRanking == BestRankReturned(TRUE)

\* C8 amended: with rank 1 = title equals the target, 2 = path equals the
\* target, 3 = the path matches '%/' || target || '.md' (the target names the
\* file without its .md extension), 4 = any other match, the resolver returns
\* the path of a candidate of the best rank present.
C8_AmendedRanking == BestRankReturned(FALSE)

\* C8 witness: a candidate of rank 4 was indexed before one of rank 3, and the
\* resolver returned the latter.
C8_LaterBetterRank ==
    /\ output # <<>> /\ input.op = "resolve"
    /\ \E i, j \in 1..Len(db.notes) :
           /\ i < j
           /\ IsCandidate(db.notes[i], input.target)
           /\ AmendedRank(db.notes[i], input.target) = 4
           /\ AmendedRank(db.notes[j], input.target) = 3
           /\ output[1] = db.notes[j].path

\* C9: a note is a candidate exactly when its path or title equals the target
\* or the basename of its path, with or without extension, equals the target,
\* compared case-sensitively and literally, wherever the note lies; the
\* resolver returns the path of such a note when there is one and the raw
\* target when there is none.
C9_ExactCandidates ==
    (output # <<>> /\ input.op = "resolve") =>
        LET cand == {i \in 1..Len(db.notes) :
                        \/ db.notes[i].path = input.target
                        \/ db.notes[i].title = input.target
                        \/ PathName(db.notes[i].path) = input.target
                        \/ PathStem(db.notes[i].path) = input.target}
        IN  IF cand = {} THEN output[1] = input.target
            ELSE \E i \in cand : output[1] = db.notes[i].path

\* C10: the resolver's answer for a target depends on the set of notes alone:
\* had the same notes been indexed in any other order, it would be the same.
C10_OrderIndependent ==
    (output # <<>> /\ input.op = "resolve") =>
        \A f \in {g \in [1..Len(db.notes) -> 1..Len(db.notes)] :
                     \A a, b \in 1..Len(db.notes) : g[a] = g[b] => a = b} :
            _resolve_link_target([k \in 1..Len(db.notes) |-> db.notes[f[k]]],
                                 input.target, TRUE) = output[1]

\* ------------------------------------------------- chunk spans (C11)

\* The offset at which paragraph k of a body begins: the paragraphs before it
\* and the two-character separator after each.
RECURSIVE ParagraphStart(_, _)
ParagraphStart(paragraphs, k) ==
    IF k = 1 THEN 0
    ELSE ParagraphStart(paragraphs, k - 1) + Len(paragraphs[k - 1]) + 2

\* The chunk rows stored for the body of the request, in the order produced.
StoredChunks == RowsOf(db.chunks, "note_id", PathA)

\* The request with the built body has been answered with success.
BodyIndexed == output # <<>> /\ output[1].status = 200

\* Every chunk is a non-empty span.
SpansNonEmpty ==
    \A k \in 1..Len(StoredChunks) :
        StoredChunks[k].start_offset < StoredChunks[k].end_offset

\* Each chunk after the first starts where the chunk before it ends.
SpansContiguous ==
    \A k \in 1..(Len(StoredChunks) - 1) :
        /\ StoredChunks[k].start_offset < StoredChunks[k + 1].start_offset
        /\ StoredChunks[k + 1].start_offset = StoredChunks[k].end_offset

\* Every paragraph that is not blank lies inside exactly one chunk.
ParagraphsCovered ==
    LET ps == Split(input, <<LF, LF>>)
    IN  \A j \in 1..Len(ps) :
            Strip(ps[j]) # <<>> =>
                Cardinality({k \in 1..Len(StoredChunks) :
                    /\ StoredChunks[k].start_offset <= ParagraphStart(ps, j)
                    /\ ParagraphStart(ps, j) + Len(ps[j])
                           <= StoredChunks[k].end_offset}) = 1

\* C11: the chunks of an indexed body, in production order, have strictly
\* increasing starts, each a non-empty span that starts where the previous one
\* ends, and every non-blank paragraph lies inside exactly one chunk.
C11_SpansPartition ==
    BodyIndexed => SpansNonEmpty /\ SpansContiguous /\ ParagraphsCovered

\* --------------------------------------- heading association (C12)

\* The headings of the list have pairwise distinct start offsets.
DistinctOffsets ==
    \A j, k \in 1..Len(input) :
        j # k => input[j].start_offset # input[k].start_offset

\* C12: for a heading list with distinct offsets, the chunk gets the heading
\* whose start offset is the greatest one not after the chunk's start, and no
\* heading when every heading starts after it.
C12_NearestPreceding ==
    (output # <<>> /\ DistinctOffsets) =>
        LET preceding == {k \in 1..Len(input) :
                             input[k].start_offset <= output[1].chunk_start}
        IN  IF preceding = {} THEN output[1].heading_id = None
            ELSE \E k \in preceding :
                    /\ \A j \in preceding :
                           input[j].start_offset <= input[k].start_offset
                    /\ output[1].heading_id = <<input[k].id>>

\* Headings at offsets 0, 40 and 60 and a chunk that starts at 50: the chunk
\* has the heading at 40.
C12_Between ==
    /\ output # <<>>
    /\ [k \in 1..Len(input) |-> input[k].start_offset] = <<0, 40, 60>>
    /\ output[1].chunk_start = 50
    /\ output[1].heading_id = <<2>>

\* -------------------------------------------- title derivation (C13)

\* Whether a line of a body is a level-1 heading line: trimmed, it is one '#',
\* then whitespace, then text.
IsLevelOneLine(line) ==
    LET t == Strip(line)
    IN  Len(t) >= 3 /\ t[1] = "#" /\ t[2] \in Whitespace

\* The text of a level-1 heading line.
LevelOneText(line) == Strip(Tail_(Strip(line), 3))

\* The title stored for the indexed body.
StoredTitle == db.notes[1].title

BacklinksAnswered == output # <<>> /\ input.op = "backlinks"

\* The modification time of the note a backlink comes from.
LinkerTime(backlink) == NoteById(db, backlink.src_note)[1].modified_at

\* C14: the list get_backlinks returns is ordered by occurrence count,
\* greatest first, and among equal counts by the modification time of the
\* linking note, latest first.
C14_BacklinkOrder ==
    BacklinksAnswered =>
        \A k \in 1..(Len(output[1]) - 1) :
            \/ output[1][k].occurrences > output[1][k + 1].occurrences
            \/ /\ output[1][k].occurrences = output[1][k + 1].occurrences
               /\ LinkerTime(output[1][k]) >= LinkerTime(output[1][k + 1])

\* A list in which a backlink of greater count from an older note stands
\* before backlinks of smaller count from a newer note.
C14_CountBeforeTime ==
    /\ BacklinksAnswered
    /\ Len(output[1]) >= 3
    /\ output[1][1].occurrences > output[1][2].occurrences
    /\ LinkerTime(output[1][1]) < LinkerTime(output[1][2])

\* The last component of a path and that component without its extension.
FileName(path) ==
    LET slashes == {i \in 1..Len(path) : path[i] = "/"}
    IN  IF slashes = {} THEN path ELSE SubSeq(path, Max(slashes) + 1, Len(path))

FileStem(path) ==
    LET name == FileName(path)
        dots == {i \in 2..(Len(name) - 1) : name[i] = "."}
    IN  IF dots = {} THEN name ELSE SubSeq(name, 1, Max(dots) - 1)

\* The Link rows whose destination names the note at path: its path, its
\* stored title, its filename or its filename without extension.
LinksNaming(path) ==
    LET own == RowsOf(db.notes, "path", path)
        Names(l) == \/ l.dst_note = path
                    \/ l.dst_note = own[1].title
                    \/ l.dst_note = FileName(path)
                    \/ l.dst_note = FileStem(path)
    IN  IF own = <<>> THEN <<>> ELSE SelectSeq(db.links, Names)

\* A backlink of the answer as the bag element of its Link row.
EdgeOf(src_note, link_text, occurrences) ==
    [src_note |-> src_note, link_text |-> link_text, occurrences |-> occurrences]

\* The bag of the elements of a sequence.
BagOf(s) ==
    [x \in Range(s) |-> Cardinality({k \in 1..Len(s) : s[k] = x})]

\* C15: get_backlinks(N.path) returns exactly the Link rows whose destination
\* is N's path, title, filename or filename without extension, one backlink
\* per row, whenever the rows were written, and the empty list for a path
\* with no Note row.
C15_BacklinkMembership ==
    BacklinksAnswered =>
        LET rows == LinksNaming(input.path)
        IN  BagOf([k \in 1..Len(output[1]) |->
                      EdgeOf(output[1][k].src_note, output[1][k].link_text,
                             output[1][k].occurrences)])
            = BagOf([k \in 1..Len(rows) |->
                        EdgeOf(rows[k].src_note, rows[k].link_text,
                               rows[k].occurrences)])

\* A forward reference is reported: the answer for b/y.md holds a backlink
\* from a Link row of a/x.md whose destination is the unresolved text "B",
\* written when no note had that title.
C15_ForwardReported ==
    /\ BacklinksAnswered
    /\ input.path = PathB
    /\ \E k \in 1..Len(db.links) :
           /\ db.links[k].src_note = PathA
           /\ db.links[k].dst_note = <<"B">>
           /\ \E j \in 1..Len(db.notes) :
                  /\ db.notes[j].path = PathB
                  /\ db.notes[j].title = <<"B">>
                  /\ db.notes[j].pass > db.links[k].pass
    /\ \E k \in 1..Len(output[1]) : output[1][k].src_note = PathA

\* ------------------------------------------- storage failures (C16)

\* Whether a storage operation failed during a call: one of its four steps,
\* or the Notes query of the resolver for one of the wikilinks of its content
\* (index_links runs when no earlier step has failed).
StorageFailed(call) ==
    \/ call.failAt # 0
    \/ \E k \in call.failing : k <= Len(FindLinks(call.content))

\* C16: an index call during which a storage operation failed, the Notes
\* query made while resolving a wikilink target included, reports failure.
C16_FailuresPropagate ==
    \A k \in 1..Len(hist.window) :
        StorageFailed(hist.window[k]) => hist.window[k].status = 500

\* --------------------------------------- answers of the reads (C17, C18)

\* GET /note has answered.
NoteAnswered == output # <<>> /\ input.op = "note"

\* Whether a Note row has the path of the request.
NoteExists == \E k \in 1..Len(db.notes) : db.notes[k].path = input.path

\* The body of a 200 answer gives the note's metadata, its headings in the
\* order of their start offsets and its backlinks.
NoteBodyRight(body) ==
    LET own == RowsOf(db.notes, "path", input.path)[1]
        hs  == RowsOf(db.headings, "note_id", own.note_id)
        bl  == LinksNaming(input.path)
    IN  /\ body.note_id = own.note_id
        /\ body.path = input.path
        /\ body.title = own.title
        /\ body.modified_at = own.modified_at
        /\ body.word_count = own.word_count
        /\ \A k \in 1..(Len(body.headings) - 1) :
               body.headings[k].start_offset <= body.headings[k + 1].start_offset
        /\ BagOf(body.headings)
           = BagOf([k \in 1..Len(hs) |->
                       [heading      |-> hs[k].heading,
                        level        |-> hs[k].level,
                        start_offset |-> hs[k].start_offset]])
        /\ BagOf([k \in 1..Len(body.backlinks) |->
                     EdgeOf(body.backlinks[k].src_note, body.backlinks[k].link_text,
                            body.backlinks[k].occurrences)])
           = BagOf([k \in 1..Len(bl) |->
                       EdgeOf(bl[k].src_note, bl[k].link_text, bl[k].occurrences)])

HealthAnswered == output # <<>> /\ input.op = "health"

\* C18: GET /health always answers 200; its status is "ok" when the database
\* of the default vault can be opened and "error", with the text of the
\* error, when it cannot; it changes no row.
C18_HealthNeverFails ==
    HealthAnswered =>
        /\ output[1].status = 200
        /\ input.ok => output[1].body = [status |-> "ok"]
        /\ ~input.ok => /\ output[1].body.status = "error"
                        /\ output[1].body.error # ""
        /\ db = IF hist.n = 0 THEN EmptyStore
                ELSE index_note(hist.before,
                                [path        |-> LastCall.path,
                                 content     |-> LastCall.content,
                                 modified_at |-> LastCall.modified_at],
                                hist.n, 0, {}).db

\* The database cannot be opened while notes are stored: the answer is 200
\* with status "error".
C18_Unavailable ==
    /\ HealthAnswered
    /\ ~input.ok
    /\ db.notes # <<>>
    /\ output[1].status = 200
    /\ output[1].body.status = "error"

\* ------------------------------------- chunk size and content (C19, C20)

\* The number of paragraphs packed into a chunk text.
PackedParagraphs(text) == Len(Split(text, <<LF, LF>>))

\* C19: a stored chunk that packs two or more paragraphs has a text, the
\* paragraphs and the separators that join them, of at most max_chunk_size
\* characters; only a chunk of one paragraph is longer.
C19_ChunkSizeBound ==
    BodyIndexed =>
        \A k \in 1..Len(StoredChunks) :
            Len(StoredChunks[k].text) > max_chunk_size
                => PackedParagraphs(StoredChunks[k].text) = 1

\* C20: no chunk stored or returned, by a flush in mid-body or by the flush
\* at the end of the input, has a text that is empty once trimmed.
C20_NoBlankChunks ==
    BodyIndexed =>
        /\ \A k \in 1..Len(StoredChunks) : Strip(StoredChunks[k].text) # <<>>
        /\ \A k \in 1..Len(output[1].body.chunks) :
               Strip(output[1].body.chunks[k].text) # <<>>

\* --------------------------------------------- chunk offsets (C21)

\* C21: the start of a stored chunk is the offset in the body of the first
\* character of its first paragraph, and its end is the offset just after the
\* last character of its last paragraph plus the separator that follows it in
\* the body, if any; so 0 <= start < end <= length of the body for every
\* chunk, the last one included.
C21_OffsetsWithinBody ==
    BodyIndexed =>
        LET ps == Split(input, <<LF, LF>>)
        IN  \A k \in 1..Len(StoredChunks) :
                /\ 0 <= StoredChunks[k].start_offset
                /\ StoredChunks[k].start_offset < StoredChunks[k].end_offset
                /\ StoredChunks[k].end_offset <= Len(input)
                /\ \E i \in 1..Len(ps) : \E j \in i..Len(ps) :
                       /\ StoredChunks[k].start_offset = ParagraphStart(ps, i)
                       /\ StoredChunks[k].end_offset
                              = ParagraphStart(ps, j) + Len(ps[j])
                                + (IF j < Len(ps) THEN 2 ELSE 0)

\* ------------------------------------- weak heading reference (C22)

\* C22: in every state of the store, those between the steps of an index call
\* and those a failed call leaves included, the heading reference of each
\* Chunk row is none or the id of a Heading row that exists.
C22_WeakHeadingReference ==
    \A k \in 1..Len(db.chunks) :
        \/ db.chunks[k].heading_id = None
        \/ \E j \in 1..Len(db.headings) :
               db.chunks[k].heading_id = <<db.headings[j].id>>

\* --------------------------------------- rows of other notes (C23)

\* The rows of the four stores that belong to notes other than the one at
\* path p, in the order of the tables.
RowsOfOthers(d, p) ==
    [notes    |-> RowsNotOf(d.notes, "path", p),
     headings |-> RowsNotOf(d.headings, "note_id", p),
     links    |-> RowsNotOf(d.links, "src_note", p),
     chunks   |-> RowsNotOf(d.chunks, "note_id", p)]

\* C23: an index call on a note, successful or failed, leaves the Note rows
\* of all other paths and the Heading, Link and Chunk rows of all other notes
\* as they were; an edge of another note stored with an unresolved
\* destination stays as stored when the call creates the note it names.
C23_TouchesOnlyOwnNote ==
    hist.n > 0 => RowsOfOthers(db, LastCall.path) = RowsOfOthers(hist.before, LastCall.path)

\* b/y.md has just been indexed with the title B while a/x.md holds an edge
\* to the unresolved destination "B": the edge is still there.
C23_NotRepointed ==
    /\ hist.n > 0
    /\ LastCall.path = PathB
    /\ LastCall.status = 200
    /\ LastCall.title = <<"B">>
    /\ \A k \in 1..Len(hist.before.notes) : hist.before.notes[k].title # <<"B">>
    /\ \E k \in 1..Len(db.links) :
           /\ db.links[k].src_note = PathA
           /\ db.links[k].dst_note = <<"B">>

\* ------------------------------------------- heading extraction (C24)

\* The number of '#' characters a text begins with.
HashRun(t) ==
    CHOOSE n \in 0..Len(t) :
        /\ \A i \in 1..n : t[i] = "#"
        /\ n = Len(t) \/ t[n + 1] # "#"

\* Whether a line of a body is a heading line: trimmed, it is one to six '#',
\* then whitespace, then text.
IsHeadingLine(line) ==
    LET t == Strip(line)
        n == HashRun(t)
    IN  n \in 1..6 /\ n < Len(t) /\ t[n + 1] \in Whitespace

\* The offset in the body of the first character of line k.
RECURSIVE LineStart(_, _)
LineStart(lines, k) ==
    IF k = 1 THEN 0 ELSE LineStart(lines, k - 1) + Len(lines[k - 1]) + 1

\* The heading a heading line gives.
HeadingOfLine(lines, k) ==
    LET t == Strip(lines[k])
    IN  [heading      |-> Strip(Tail_(t, HashRun(t) + 1)),
         level        |-> HashRun(t),
         start_offset |-> LineStart(lines, k)]

\* The sequence of the heading lines of a body, from line k on.
RECURSIVE HeadingsFromLine(_, _)
HeadingsFromLine(lines, k) ==
    IF k > Len(lines) THEN <<>>
    ELSE (IF IsHeadingLine(lines[k]) THEN <<HeadingOfLine(lines, k)>> ELSE <<>>)
         \o HeadingsFromLine(lines, k + 1)

\* The Heading rows stored for the indexed body, in the order inserted.
StoredHeadings ==
    LET rows == RowsOf(db.headings, "note_id", output[1].path)
    IN  [k \in 1..Len(rows) |->
            [heading      |-> rows[k].heading,
             level        |-> rows[k].level,
             start_offset |-> rows[k].start_offset]]

\* C24: the headings recorded for a body are exactly its heading lines, in
\* document order, each with the level of its count of '#', between 1 and 6,
\* and the offset of the first character of its line in the untrimmed body;
\* the start offsets increase strictly.
C24_HeadingExtraction ==
    (output # <<>> /\ output[1].status = 200) =>
        /\ StoredHeadings = HeadingsFromLine(Split(input, <<LF>>), 1)
        /\ \A k \in 1..Len(StoredHeadings) : StoredHeadings[k].level \in 1..6
        /\ \A k \in 1..(Len(StoredHeadings) - 1) :
               StoredHeadings[k].start_offset < StoredHeadings[k + 1].start_offset

\* The body "s\n #\tV ", whose second line is a heading set in from the
\* margin: one heading of level 1 with the text "V" at offset 2, where the
\* line begins.
C24_IndentedHeading ==
    /\ output # <<>>
    /\ output[1].status = 200
    /\ input = LineText \o <<LF>> \o LineIndented
    /\ StoredHeadings = <<[heading |-> <<"V">>, level |-> 1, start_offset |-> 2]>>

\* ------------------------------------------- heading tie-break (C25)

\* The positions of the headings that share the greatest start offset not
\* after the chunk start.
NearestPreceding ==
    LET preceding == {k \in 1..Len(input) :
                         input[k].start_offset <= output[1].chunk_start}
    IN  {k \in preceding :
            \A j \in preceding : input[j].start_offset <= input[k].start_offset}

\* Two or more headings share that offset.
OffsetTied == output # <<>> /\ Cardinality(NearestPreceding) >= 2

\* C25 as stated: when two or more headings share the greatest start offset
\* not after the chunk start, the chunk gets the one that comes later in the
\* list.
C25_LaterOfTiedWins ==
    OffsetTied => output[1].heading_id = <<input[Max(NearestPreceding)].id>>

\* C25 as amended: when two or more headings share the greatest start offset
\* not after the chunk start, the chunk gets the one that comes first in the
\* list.
C25_FirstOfTiedWins ==
    OffsetTied => output[1].heading_id = <<input[Min(NearestPreceding)].id>>

\* Headings at offsets 0, 40 and 40 and a chunk that starts at 50: the chunk
\* has the second heading of the list, not the third.
C25_TieAtForty ==
    /\ output # <<>>
    /\ [k \in 1..Len(input) |-> input[k].start_offset] = <<0, 40, 40>>
    /\ output[1].chunk_start = 50
    /\ output[1].heading_id = <<2>>

\* ------------------------------------- one view of Notes per pass (C26)

\* Every match of a pass was resolved against the same notes.
SameNotesView(c) ==
    \A i, j \in 1..Len(c.resolved) : c.resolved[i].notes = c.resolved[j].notes

\* Matches of a pass with the same raw target got the same destination, so
\* the pass holds a single link for them.
SameTargetSameLink(c) ==
    /\ \A i, j \in 1..Len(c.resolved) :
           c.resolved[i].target = c.resolved[j].target
               => c.resolved[i].dst = c.resolved[j].dst
    /\ \A t \in {c.resolved[i].target : i \in 1..Len(c.resolved)} :
           Cardinality({j \in 1..Len(c.links) :
               \E i \in 1..Len(c.resolved) :
                   c.resolved[i].target = t /\ c.resolved[i].dst = c.links[j].target})
               = 1

\* C26: within one index pass of a note, also while other notes are being
\* indexed, every wikilink of the body is resolved against the same state of
\* the Notes table, so the wikilinks of one raw target get one destination
\* and give a single Link row for the pass.
C26_OneViewPerPass ==
    \A k \in 1..Len(calls) :
        SameNotesView(calls[k]) /\ SameTargetSameLink(calls[k])

====
